---- MODULE Spec2Model ----
(***************************************************************************)
(* Model of the SpeedAppraisal comment pipeline (src/speed_nodes.py,       *)
(* src/user_flow.py): DataGatherer >> CommentsGenerator >> [CommentFinalizer *)
(* >>] OutputFileWriter run by a pocketflow Flow over one shared dict.     *)
(*                                                                         *)
(* Python objects created by yaml.safe_load in DataGatherer.exec live in   *)
(* heap; every other place (shared["speed_files"], prep_res, exec_res,   *)
(* shared["FinalComments"]) holds references (indices into heap), so that  *)
(* in-place mutation through one alias is seen through all of them.        *)
(***************************************************************************)
EXTENDS Integers, Sequences, FiniteSets, TLC

\* ------------------------------------------------------------------ bounds
\* most CardItems in one Goals / Attributes record file
MaxCards == 2
\* longest "files" override handed to a stand-alone DataGatherer
MaxFiles == 2
\* longest completion (in lines) the exhaustive generator returns
MaxRespLen == 4
MaxReruns == 2

VARIABLES
    chain,          \* which chain was built: "create_flow", "main", "gatherer"
    shared,         \* the shared dict passed to Flow.run
    heap,           \* objects returned by yaml.safe_load in DataGatherer.exec
    node,           \* Flow._orch: the current node, "none" when the loop ended
    phase,          \* position inside node._run: prep / exec / post, or done / raised
    prep_res,       \* what prep returned
    exec_res,       \* results collected so far by BatchNode._exec (or Node._exec)
    ci,             \* CommentsGenerator/CommentFinalizer.exec: cards done in the current element
    lastResp,       \* the completion returned by the latest call_llm
    calls,          \* log of call_llm invocations: <<node, element ref, card index>>
    execLog,        \* log of the elements exec was invoked on in the current node
    trace,          \* log of <<node, phase>> entered so far
    final_comments, \* content of details/final_comments.yaml
    comments_data,  \* what run() read back from final_comments.yaml
    run_pc          \* position of run() around the flow

vars == <<chain, shared, heap, node, phase, prep_res, exec_res, ci, lastResp,
          calls, execLog, trace, final_comments, comments_data, run_pc>>

\* ------------------------------------------------------------ YAML values
\* A value yaml.safe_load can return for a fenced block, or the absence of
\* the 'cardComment' key.  text: a str as a sequence of atoms (chunks of
\* characters); items: a dict as its (key, value) pairs in insertion order.
Absent == [kind |-> "absent", text |-> <<>>, items |-> <<>>]
YNone == [kind |-> "none", text |-> <<>>, items |-> <<>>]
YStr(t) == [kind |-> "str", text |-> t, items |-> <<>>]
YMap(its) == [kind |-> "map", text |-> <<>>, items |-> its]

\* ------------------------------------------------------------ completions
\* the character U+2019 (right single quotation mark) and the ASCII apostrophe
RSQUO == "U+2019"
APOS == "'"
\* A completion is a sequence of lines.  A line is an opening fence, a
\* closing fence, a "key: value" line or a plain text line (k = "").
\* "FENCE:yaml" stands for a line holding three backticks followed by yaml,
\* "FENCE" for a line holding three backticks
FenceYaml == [k |-> "FENCE:yaml", v |-> <<>>]
Fence == [k |-> "FENCE", v |-> <<>>]
LComment == [k |-> "comment", v |-> <<"Shipped X on time">>]
LCurly == [k |-> "comment", v |-> <<"It", RSQUO, "s shipped">>]
LReason == [k |-> "reason", v |-> <<"met deadline">>]
LNoComment == [k |-> "", v |-> <<"no ", "comment">>]
LPlain == [k |-> "", v |-> <<"Here is the draft">>]

Lines == {FenceYaml, Fence, LComment, LCurly, LReason, LNoComment, LPlain}

RECURSIVE SeqsUpTo(_, _)
SeqsUpTo(S, n) ==
    IF n = 0 THEN {<<>>}
    ELSE LET shorter == SeqsUpTo(S, n - 1)
         IN  shorter \cup {Append(s, x) : s \in {t \in shorter : Len(t) = n - 1}, x \in S}

\* every completion of at most MaxRespLen lines
AllResponses == SeqsUpTo(Lines, MaxRespLen)

\* the completions of the stub generator used for whole pipeline runs
StubResponses ==
    { <<FenceYaml, LComment, LReason, Fence>>,
      <<LPlain, FenceYaml, LComment, LReason, Fence, LPlain>>,
      <<LPlain>>,
      <<FenceYaml, LReason, Fence>>,
      <<FenceYaml, Fence>>,
      <<FenceYaml, LNoComment, Fence>>,
      <<FenceYaml, LPlain, Fence>>,
      <<FenceYaml, LCurly, LReason, Fence>> }

\* ------------------------------------------------- parsing of a completion
\* results of a step that may raise
Ok(val) == [ok |-> TRUE, err |-> "", val |-> val]
Raise(err) == [ok |-> FALSE, err |-> err, val |-> Absent]

\* content.replace(U+2019, "'"): every occurrence, anywhere in the completion
ReplaceApostrophe(content) ==
    [i \in DOMAIN content |->
        [k |-> content[i].k,
         v |-> [j \in DOMAIN content[i].v |->
                   IF content[i].v[j] = RSQUO THEN APOS ELSE content[i].v[j]]]]

\* the separator of content.split(FENCE:yaml) occurs in the completion
HasYamlFence(content) == \E i \in DOMAIN content : content[i].k = "FENCE:yaml"

\* a line in which the separator of .split(FENCE) occurs: the opening fence
\* starts with the three backticks of the closing one
HoldsFence(line) == line.k \in {"FENCE", "FENCE:yaml"}

\* content.split(FENCE:yaml)[1] up to the next separator: what follows the
\* FIRST opening fence.  Only used when HasYamlFence(content).
AfterYamlFence(content) ==
    LET i == CHOOSE i \in DOMAIN content :
                 /\ content[i].k = "FENCE:yaml"
                 /\ \A j \in 1..(i - 1) : content[j].k # "FENCE:yaml"
    IN  SubSeq(content, i + 1, Len(content))

\* mutant of BeforeFence: only a bare closing fence ends the block
BeforeFence_ClosingOnly(rest) ==
    IF \E i \in DOMAIN rest : rest[i].k = "FENCE"
    THEN LET i == CHOOSE i \in DOMAIN rest :
                      /\ rest[i].k = "FENCE"
                      /\ \A j \in 1..(i - 1) : rest[j].k # "FENCE"
         IN  SubSeq(rest, 1, i - 1)
    ELSE rest

\* rest.split(FENCE)[0]: what precedes the first line holding three backticks,
\* all of rest when there is none
BeforeFence(rest) ==
    IF \E i \in DOMAIN rest : HoldsFence(rest[i])
    THEN LET i == CHOOSE i \in DOMAIN rest :
                      /\ HoldsFence(rest[i])
                      /\ \A j \in 1..(i - 1) : ~HoldsFence(rest[j])
         IN  SubSeq(rest, 1, i - 1)
    ELSE rest

\* dict[key] = value as PyYAML's construct_mapping does it: a repeated key
\* keeps its first position and takes the last value
SetItem(items, key, val) ==
    IF \E i \in DOMAIN items : items[i][1] = key
    THEN [i \in DOMAIN items |-> IF items[i][1] = key THEN <<key, val>> ELSE items[i]]
    ELSE Append(items, <<key, val>>)

RECURSIVE MapOf(_)
MapOf(block) ==
    IF block = <<>> THEN <<>>
    ELSE LET n == Len(block)
         IN  SetItem(MapOf(SubSeq(block, 1, n - 1)), block[n].k, block[n].v)

\* a plain scalar spread over several lines is folded: lines joined by a space
RECURSIVE FoldLines(_)
FoldLines(block) ==
    IF Len(block) = 1 THEN block[1].v
    ELSE LET n == Len(block)
         IN  FoldLines(SubSeq(block, 1, n - 1)) \o <<" ">> \o block[n].v

\* yaml.safe_load of the text between the fences: nothing loads as None,
\* "key: value" lines as a dict, plain lines as one str; a plain line next to
\* a "key: value" line is a syntax error
yaml_safe_load(block) ==
    IF block = <<>> THEN Ok(YNone)
    ELSE IF \A i \in DOMAIN block : block[i].k # "" THEN Ok(YMap(MapOf(block)))
    ELSE IF \A i \in DOMAIN block : block[i].k = "" THEN Ok(YStr(FoldLines(block)))
    ELSE Raise("YAMLError")

\* Python's  "comment" in x : a key test on a dict, a substring test on a str,
\* a TypeError on None (reported by the caller)
CommentIn(x) ==
    IF x.kind = "map" THEN \E i \in DOMAIN x.items : x.items[i][1] = "comment"
    ELSE \E i \in DOMAIN x.text : x.text[i] = "comment"

\* mutant of ParseCompletion: best effort, a completion without a fence is
\* taken as the comment itself
ParseCompletion_BestEffort(resp) ==
    LET content == ReplaceApostrophe(resp)
    IN  IF ~HasYamlFence(content)
        THEN Ok(YStr(IF content = <<>> THEN <<>> ELSE FoldLines(content)))
        ELSE LET structured_result == yaml_safe_load(BeforeFence(AfterYamlFence(content)))
             IN  IF ~structured_result.ok THEN structured_result
                 ELSE IF structured_result.val.kind = "none" THEN Raise("TypeError")
                 ELSE IF ~CommentIn(structured_result.val) THEN Raise("AssertionError")
                 ELSE structured_result

\* CommentsGenerator.exec, lines 147-150: the value to attach, or the exception
ParseCompletion(resp) ==
    LET content == ReplaceApostrophe(resp)
    IN  IF ~HasYamlFence(content) THEN Raise("IndexError")
        ELSE LET stripped_content == BeforeFence(AfterYamlFence(content))
                 structured_result == yaml_safe_load(stripped_content)
             IN  IF ~structured_result.ok THEN structured_result
                 ELSE IF structured_result.val.kind = "none" THEN Raise("TypeError")
                 ELSE IF ~CommentIn(structured_result.val) THEN Raise("AssertionError")
                 ELSE structured_result

\* ------------------------------------------------------------ the Store
\* file stems under ContinousFeedback/details/ (default list of DataGatherer.prep)
DefaultFiles == <<"Goals", "Attributes", "Settings", "feed_forward", "users_dict">>
Names == {DefaultFiles[i] : i \in DOMAIN DefaultFiles}

\* the top-level key run() saves each file under (speed_appraisal.py)
FileKey(name) ==
    CASE name = "Goals" -> "Goal(s)"
      [] name = "Attributes" -> "Attribute(s)"
      [] name = "Settings" -> "settings"
      [] name = "feed_forward" -> "FeedForward"
      [] OTHER -> "stakeholders"

\* one CardItem as feedback_fetcher builds it; 'cardComment' is not set yet
CardItem(i) ==
    [cardNo |-> i - 1, cardHeading |-> "Delivery", cardText |-> "Ship X by Q3",
     previousmessages |-> <<>>, cardattributes |-> <<>>, cardComment |-> Absent]

\* the keys of a CardItem dict in insertion order: feedback_fetcher's five,
\* then 'cardComment' once CommentsGenerator has set it
CardKeys(card) ==
    <<"cardNo", "cardHeading", "cardText", "previousmessages", "cardattributes">>
    \o (IF card.cardComment = Absent THEN <<>> ELSE <<"cardComment">>)

\* what yaml.safe_load returns for a file: a dict with one top-level key (the
\* CardItems under it for Goals and Attributes), or None for an empty file.
\* name remembers the file stem the object was loaded from.
Record(name, n) ==
    [name |-> name, kind |-> "dict", keys |-> <<FileKey(name)>>,
     cards |-> [i \in 1..n |-> CardItem(i)]]
NoneObject(name) == [name |-> name, kind |-> "none", keys |-> <<>>, cards |-> <<>>]

CardCounts(name) == IF name \in {"Goals", "Attributes"} THEN 0..MaxCards ELSE {0}

\* DataGatherer.exec on one name: open() or yaml.safe_load raises (file
\* missing or unparsable), or the parsed content is returned
LoadOutcomes(name) ==
    {[ok |-> FALSE, val |-> NoneObject(name)], [ok |-> TRUE, val |-> NoneObject(name)]}
    \cup {[ok |-> TRUE, val |-> Record(name, n)] : n \in CardCounts(name)}

\* the two auxiliary reads at the top of CommentsGenerator.exec and the
\* yaml.safe_load(feed_forward) inside the prompt
AuxiliaryReads == {"ok", "missing", "unparsable"}

\* ------------------------------------------------------ the shared dict
NoKey == [t |-> "nokey", v |-> <<>>]
ListOf(s) == [t |-> "list", v |-> s]
RefTo(r) == [t |-> "ref", v |-> <<r>>]

EmptyShared ==
    [files |-> NoKey, speed_files |-> NoKey, user_files |-> NoKey,
     misc_files |-> NoKey, FinalComments |-> NoKey]

\* everything reachable from the shared dict: its entries with every
\* reference replaced by the object it points to
Deref(refs) == [i \in DOMAIN refs |-> heap[refs[i]]]
Reachable ==
    [files |-> shared.files,
     speed_files |-> [t |-> shared.speed_files.t, v |-> Deref(shared.speed_files.v)],
     user_files |-> [t |-> shared.user_files.t, v |-> Deref(shared.user_files.v)],
     misc_files |-> [t |-> shared.misc_files.t, v |-> Deref(shared.misc_files.v)],
     FinalComments |-> [t |-> shared.FinalComments.t, v |-> Deref(shared.FinalComments.v)]]

\* ------------------------------------------------------------- the Flow
\* node >> node: the successor registered under "default", "none" without one
Successor(ch, n) ==
    CASE ch = "create_flow" /\ n = "gatherer" -> "comments"
      [] ch = "create_flow" /\ n = "comments" -> "writer"
      [] ch = "main" /\ n = "gatherer" -> "comments"
      [] ch = "main" /\ n = "comments" -> "finalizer"
      [] ch = "main" /\ n = "finalizer" -> "writer"
      [] OTHER -> "none"

\* mutant of GetNextNode: successors.get(action), None finds no successor
GetNextNode_NoDefault(ch, n, action) ==
    IF action = "default" THEN Successor(ch, n) ELSE "none"

\* Flow.get_next_node: curr.successors.get(action or "default"); post returns
\* "default" or None ("None" here), and only "default" is registered
GetNextNode(ch, n, action) ==
    LET key == IF action = "None" THEN "default" ELSE action
    IN  IF key = "default" THEN Successor(ch, n) ELSE "none"

\* Flow._orch after curr._run(shared) returned action: move to the successor
\* (its prep comes next) or leave the loop
Advance(action) ==
    LET nxt == GetNextNode(chain, node, action)
    IN  /\ node' = nxt
        /\ phase' = IF nxt = "none" THEN "done" ELSE "prep"
        /\ prep_res' = <<>>
        /\ exec_res' = <<>>
        /\ execLog' = <<>>
        /\ trace' = Append(trace, <<node, "post">>)

\* an exception leaves every frame: Flow.run ends, nothing else executes
Raised == phase' = "raised" /\ UNCHANGED node

\* mutant of NextElement: the batch is gone through from its end
NextElement_Reversed == Len(prep_res) - Len(exec_res)

\* BatchNode._exec: the element exec is applied to next, in list order
NextElement == Len(exec_res) + 1
\* BatchNode._exec has gone through (items or [])
BatchExhausted == Len(exec_res) = Len(prep_res)

NoFile == [written |-> FALSE, doc |-> <<>>]
\* comments_data before run() has read the file back
NotRead == [kind |-> "notread", items |-> <<>>]

Init ==
    /\ chain \in {"create_flow", "main", "gatherer"}
    /\ shared \in {[EmptyShared EXCEPT !.files = f] :
                     f \in IF chain = "gatherer"
                           THEN {NoKey} \cup {ListOf(l) : l \in SeqsUpTo(Names, MaxFiles)}
                           ELSE {NoKey}}
    /\ heap = <<>>
    /\ node = "gatherer"
    /\ phase = "prep"
    /\ prep_res = <<>>
    /\ exec_res = <<>>
    /\ ci = 0
    /\ lastResp = <<>>
    /\ calls = <<>>
    /\ execLog = <<>>
    /\ trace = <<>>
    /\ final_comments = NoFile
    /\ comments_data = NotRead
    /\ run_pc = "flow"

\* --------------------------------------------------------- DataGatherer
\* prep: shared.get("files", [...default...])
GathererPrep ==
    /\ node = "gatherer" /\ phase = "prep"
    /\ prep_res' = IF shared.files = NoKey THEN DefaultFiles ELSE shared.files.v
    /\ phase' = "exec"
    /\ trace' = Append(trace, <<node, "prep">>)
    /\ UNCHANGED <<chain, shared, heap, node, exec_res, ci, lastResp, calls, execLog,
                   final_comments, comments_data, run_pc>>

\* mutant of GathererExec: a failed load ends the batch and post runs on
\* what was loaded before it
GathererExec_PartialRecovery ==
    /\ node = "gatherer" /\ phase = "exec" /\ Len(exec_res) < Len(prep_res)
    /\ LET name == prep_res[Len(exec_res) + 1]
       IN  \E out \in LoadOutcomes(name) :
              /\ execLog' = Append(execLog, name)
              /\ IF out.ok
                 THEN /\ heap' = Append(heap, out.val)
                      /\ exec_res' = Append(exec_res, Len(heap) + 1)
                      /\ UNCHANGED <<node, phase>>
                 ELSE /\ phase' = "post"
                      /\ UNCHANGED <<node, heap, exec_res>>
    /\ UNCHANGED <<chain, shared, prep_res, ci, lastResp, calls, trace, final_comments, comments_data, run_pc>>

\* exec on the next name of the batch
GathererExec ==
    /\ node = "gatherer" /\ phase = "exec" /\ ~BatchExhausted
    /\ LET name == prep_res[NextElement]
       IN  \E out \in LoadOutcomes(name) :
              /\ execLog' = Append(execLog, name)
              /\ IF out.ok
                 THEN /\ heap' = Append(heap, out.val)
                      /\ exec_res' = Append(exec_res, Len(heap) + 1)
                      /\ UNCHANGED <<node, phase>>
                 ELSE /\ Raised
                      /\ UNCHANGED <<heap, exec_res>>
    /\ UNCHANGED <<chain, shared, prep_res, ci, lastResp, calls, trace, final_comments, comments_data, run_pc>>

\* mutant of GathererFile: the FeedForward record is appended to speed_files too
RECURSIVE GathererFile_FeedForwardToo(_, _, _)
GathererFile_FeedForwardToo(sh, refs, i) ==
    IF i > Len(refs) THEN [ok |-> TRUE, sh |-> sh]
    ELSE LET item == heap[refs[i]]
         IN  IF item.kind # "dict" \/ item.keys = <<>> THEN [ok |-> FALSE, sh |-> sh]
             ELSE LET item_key == item.keys[1]
                      filed ==
                          IF item_key \in {"Goal(s)", "Attribute(s)", "FeedForward"}
                          THEN [sh EXCEPT !.speed_files = ListOf(Append(@.v, refs[i]))]
                          ELSE [sh EXCEPT !.misc_files = RefTo(refs[i])]
                  IN  GathererFile_FeedForwardToo(filed, refs, i + 1)

\* the for loop of post over exec_res[i..]: sh is the shared dict so far;
\* item.keys() raises on None
RECURSIVE GathererFile(_, _, _)
GathererFile(sh, refs, i) ==
    IF i > Len(refs) THEN [ok |-> TRUE, sh |-> sh]
    ELSE LET item == heap[refs[i]]
         IN  IF item.kind # "dict" \/ item.keys = <<>> THEN [ok |-> FALSE, sh |-> sh]
             ELSE LET item_key == item.keys[1]
                      filed ==
                          IF item_key \in {"Goal(s)", "Attribute(s)"}
                          THEN [sh EXCEPT !.speed_files = ListOf(Append(@.v, refs[i]))]
                          ELSE IF item_key = "FeedForward"
                          THEN [sh EXCEPT !.user_files = RefTo(refs[i])]
                          ELSE [sh EXCEPT !.misc_files = RefTo(refs[i])]
                  IN  GathererFile(filed, refs, i + 1)

\* post: reset the two lists, file every result, return "default"
GathererPost ==
    /\ node = "gatherer" /\ phase = "post"
    /\ LET start == [shared EXCEPT !.speed_files = ListOf(<<>>), !.user_files = ListOf(<<>>)]
           res == GathererFile(start, exec_res, 1)
       IN  /\ shared' = res.sh
           /\ IF res.ok
              THEN Advance("default")
              ELSE Raised /\ UNCHANGED <<prep_res, exec_res, execLog, trace>>
    /\ UNCHANGED <<chain, heap, ci, lastResp, calls, final_comments, comments_data, run_pc>>

\* BatchNode._exec returns the collected list: post comes next
BatchExecReturn ==
    /\ node \in {"gatherer", "comments", "finalizer"}
    /\ phase = "exec" /\ BatchExhausted
    /\ phase' = "post"
    /\ trace' = Append(trace, <<node, "exec">>)
    /\ UNCHANGED <<chain, shared, heap, node, prep_res, exec_res, ci, lastResp, calls,
                   execLog, final_comments, comments_data, run_pc>>

\* ---------------------------------------------------- CommentsGenerator
\* prep: shared["speed_files"] (the list object itself)
CommentsPrep ==
    /\ node = "comments" /\ phase = "prep"
    /\ trace' = Append(trace, <<node, "prep">>)
    /\ IF shared.speed_files = NoKey
       THEN Raised /\ UNCHANGED prep_res
       ELSE /\ prep_res' = shared.speed_files.v
            /\ phase' = "exec"
            /\ UNCHANGED node
    /\ UNCHANGED <<chain, shared, heap, exec_res, ci, lastResp, calls, execLog,
                   final_comments, comments_data, run_pc>>

\* mutant of AttachComment: the comment is also written over the card's text
AttachComment_OverText(h, ref, c, structured_result) ==
    [h EXCEPT ![ref].cards[c].cardComment = structured_result,
              ![ref].cards[c].cardText = "Shipped X on time"]

\* item["cardComment"] = structured_result on card c of the object at ref:
\* the dict loaded by DataGatherer is changed in place
AttachComment(h, ref, c, structured_result) ==
    [h EXCEPT ![ref].cards[c].cardComment = structured_result]

\* exec enters the next record: key_name, the two auxiliary files are read;
\* a record without CardItems is returned at once
CommentsExecOpen ==
    /\ node = "comments" /\ phase = "exec" /\ ~BatchExhausted /\ ci = 0
    /\ LET ref == prep_res[NextElement]
       IN  \E aux \in AuxiliaryReads :
              /\ execLog' = Append(execLog, ref)
              /\ IF aux = "missing" \/ (aux = "unparsable" /\ heap[ref].cards # <<>>)
                 THEN Raised /\ UNCHANGED <<exec_res, ci>>
                 ELSE /\ UNCHANGED <<node, phase>>
                      /\ IF heap[ref].cards = <<>>
                         THEN exec_res' = Append(exec_res, ref) /\ ci' = 0
                         ELSE ci' = 1 /\ UNCHANGED exec_res
    /\ UNCHANGED <<chain, shared, heap, prep_res, lastResp, calls, trace, final_comments, comments_data, run_pc>>

\* mutant of CommentsExecCard: a completion that fails the contract is
\* skipped and the loop goes on with the next CardItem
CommentsExecCard_SkipOnFailure(Completions) ==
    /\ node = "comments" /\ phase = "exec" /\ ~BatchExhausted /\ ci >= 1
    /\ LET ref == prep_res[NextElement]
       IN  \E resp \in Completions :
              LET res == ParseCompletion(resp)
              IN  /\ lastResp' = resp
                  /\ calls' = Append(calls, <<node, ref, ci>>)
                  /\ heap' = IF res.ok THEN AttachComment(heap, ref, ci, res.val) ELSE heap
                  /\ UNCHANGED <<node, phase>>
                  /\ IF ci = Len(heap[ref].cards)
                     THEN exec_res' = Append(exec_res, ref) /\ ci' = 0
                     ELSE ci' = ci + 1 /\ UNCHANGED exec_res
    /\ UNCHANGED <<chain, shared, prep_res, execLog, trace, final_comments, comments_data, run_pc>>

\* one round of the for loop: call_llm, parse, assert, attach; after the
\* last CardItem exec returns prep_res (the same object)
CommentsExecCard(Completions) ==
    /\ node = "comments" /\ phase = "exec" /\ ~BatchExhausted /\ ci >= 1
    /\ LET ref == prep_res[NextElement]
       IN  \E resp \in Completions :
              LET res == ParseCompletion(resp)
              IN  /\ lastResp' = resp
                  /\ calls' = Append(calls, <<node, ref, ci>>)
                  /\ IF res.ok
                     THEN /\ heap' = AttachComment(heap, ref, ci, res.val)
                          /\ UNCHANGED <<node, phase>>
                          /\ IF ci = Len(heap[ref].cards)
                             THEN exec_res' = Append(exec_res, ref) /\ ci' = 0
                             ELSE ci' = ci + 1 /\ UNCHANGED exec_res
                     ELSE Raised /\ UNCHANGED <<heap, exec_res, ci>>
    /\ UNCHANGED <<chain, shared, prep_res, execLog, trace, final_comments, comments_data, run_pc>>

\* post: shared["FinalComments"] = exec_res; returns None
CommentsPost ==
    /\ node = "comments" /\ phase = "post"
    /\ shared' = [shared EXCEPT !.FinalComments = ListOf(exec_res)]
    /\ Advance("None")
    /\ UNCHANGED <<chain, heap, ci, lastResp, calls, final_comments, comments_data, run_pc>>

\* ----------------------------------------------------- CommentFinalizer
FinalizerPrep ==
    /\ node = "finalizer" /\ phase = "prep"
    /\ trace' = Append(trace, <<node, "prep">>)
    /\ IF shared.FinalComments = NoKey
       THEN Raised /\ UNCHANGED prep_res
       ELSE /\ prep_res' = shared.FinalComments.v
            /\ phase' = "exec"
            /\ UNCHANGED node
    /\ UNCHANGED <<chain, shared, heap, exec_res, ci, lastResp, calls, execLog,
                   final_comments, comments_data, run_pc>>

\* mutant of FinalizerEffect: the review is written back into the CardItem
FinalizerEffect_WriteBack(h, ref, c, resp) ==
    [h EXCEPT ![ref].cards[c].cardComment = YMap(<< <<"comment", <<>>>> >>)]

\* what exec does to the heap with the completion of card c: it is printed
FinalizerEffect(h, ref, c, resp) == h

\* exec on a record without CardItems: the loop body never runs, None returned
FinalizerExecEmpty ==
    /\ node = "finalizer" /\ phase = "exec" /\ ~BatchExhausted
    /\ heap[prep_res[NextElement]].cards = <<>>
    /\ execLog' = Append(execLog, prep_res[NextElement])
    /\ exec_res' = Append(exec_res, 0)
    /\ UNCHANGED <<chain, shared, heap, node, phase, prep_res, ci, lastResp, calls,
                   trace, final_comments, comments_data, run_pc>>

\* one round of the for loop: the prompt reads item['cardComment'] (KeyError
\* without it), print(call_llm(prompt)); exec returns None after the last card
FinalizerExecCard ==
    /\ node = "finalizer" /\ phase = "exec" /\ ~BatchExhausted
    /\ LET ref == prep_res[NextElement]
           c == ci + 1
       IN  /\ c <= Len(heap[ref].cards)
           /\ execLog' = IF ci = 0 THEN Append(execLog, ref) ELSE execLog
           /\ IF heap[ref].cards[c].cardComment = Absent
              THEN Raised /\ UNCHANGED <<heap, exec_res, ci, lastResp, calls>>
              ELSE \E resp \in StubResponses :
                      /\ lastResp' = resp
                      /\ calls' = Append(calls, <<node, ref, c>>)
                      /\ heap' = FinalizerEffect(heap, ref, c, resp)
                      /\ UNCHANGED <<node, phase>>
                      /\ IF c = Len(heap[ref].cards)
                         THEN exec_res' = Append(exec_res, 0) /\ ci' = 0
                         ELSE ci' = c /\ UNCHANGED exec_res
    /\ UNCHANGED <<chain, shared, prep_res, trace, final_comments, comments_data, run_pc>>

\* post is "..." : nothing stored, None returned
FinalizerPost ==
    /\ node = "finalizer" /\ phase = "post"
    /\ Advance("None")
    /\ UNCHANGED <<chain, shared, heap, ci, lastResp, calls, final_comments, comments_data, run_pc>>

\* ----------------------------------------------------- OutputFileWriter
WriterPrep ==
    /\ node = "writer" /\ phase = "prep"
    /\ trace' = Append(trace, <<node, "prep">>)
    /\ IF shared.FinalComments = NoKey
       THEN Raised /\ UNCHANGED prep_res
       ELSE /\ prep_res' = shared.FinalComments.v
            /\ phase' = "exec"
            /\ UNCHANGED node
    /\ UNCHANGED <<chain, shared, heap, exec_res, ci, lastResp, calls, execLog,
                   final_comments, comments_data, run_pc>>

\* yaml.dump(prep_res, sort_keys=False, line_break="\n") in block style: the
\* document as its lines, each with its indentation, whether it opens a list
\* item ("- "), its key and its scalar (<<>> when a block follows)
DocLine(ind, dash, k, v) == [ind |-> ind, dash |-> dash, k |-> k, v |-> v]

RECURSIVE DumpItems(_, _)
DumpItems(items, ind) ==
    IF items = <<>> THEN <<>>
    ELSE <<DocLine(ind, FALSE, items[1][1], items[1][2])>> \o DumpItems(Tail(items), ind)

\* the 'cardComment' entry of a CardItem: absent, a str, or a nested mapping
DumpComment(c, ind) ==
    CASE c.kind = "absent" -> <<>>
      [] c.kind = "map" ->
            IF c.items = <<>> THEN <<DocLine(ind, FALSE, "cardComment", <<"{}">>)>>
            ELSE <<DocLine(ind, FALSE, "cardComment", <<>>)>> \o DumpItems(c.items, ind + 2)
      [] OTHER -> <<DocLine(ind, FALSE, "cardComment", c.text)>>

\* one CardItem, its fields in insertion order
DumpCard(card, ind) ==
    << DocLine(ind - 2, TRUE, "cardNo", <<ToString(card.cardNo)>>),
       DocLine(ind, FALSE, "cardHeading", <<card.cardHeading>>),
       DocLine(ind, FALSE, "cardText", <<card.cardText>>),
       DocLine(ind, FALSE, "previousmessages", <<"[]">>),
       DocLine(ind, FALSE, "cardattributes", <<"{}">>) >>
    \o DumpComment(card.cardComment, ind)

RECURSIVE DumpCards(_, _)
DumpCards(cards, ind) ==
    IF cards = <<>> THEN <<>>
    ELSE DumpCard(cards[1], ind) \o DumpCards(Tail(cards), ind)

\* mutant of DumpRecord: an empty list of CardItems is left out after the key
DumpRecord_EmptyAsNull(rec) ==
    <<DocLine(0, TRUE, rec.keys[1], <<>>)>> \o DumpCards(rec.cards, 4)

\* one record of the list: "- key:" and its CardItems, "- key: []" without any
DumpRecord(rec) ==
    IF rec.cards = <<>> THEN <<DocLine(0, TRUE, rec.keys[1], <<"[]">>)>>
    ELSE <<DocLine(0, TRUE, rec.keys[1], <<>>)>> \o DumpCards(rec.cards, 4)

RECURSIVE DumpRecords(_)
DumpRecords(records) ==
    IF records = <<>> THEN <<>>
    ELSE DumpRecord(records[1]) \o DumpRecords(Tail(records))

\* an empty list is dumped in flow style, as the one line "[]"
yaml_dump(records) ==
    IF records = <<>> THEN <<DocLine(0, FALSE, "", <<"[]">>)>>
    ELSE DumpRecords(records)

\* open(path, "w") then file.write(text): the old content is truncated; "a"
\* would keep it
WriteFile_Append(old, text) == [written |-> TRUE, doc |-> old.doc \o text]
WriteFile(old, text) == [written |-> TRUE, doc |-> text]

\* exec: open(..., "w") and write the dump of prep_res
WriterExec ==
    /\ node = "writer" /\ phase = "exec"
    /\ final_comments' = WriteFile(final_comments, yaml_dump(Deref(prep_res)))
    /\ UNCHANGED <<comments_data, run_pc>>
    /\ execLog' = Append(execLog, prep_res)
    /\ phase' = "post"
    /\ trace' = Append(trace, <<node, "exec">>)
    /\ UNCHANGED <<chain, shared, heap, node, prep_res, exec_res, ci, lastResp, calls>>

\* post is BaseNode.post: pass, None returned
WriterPost ==
    /\ node = "writer" /\ phase = "post"
    /\ Advance("None")
    /\ UNCHANGED <<chain, shared, heap, ci, lastResp, calls, final_comments, comments_data, run_pc>>

\* --------------------------------------------------- run() after the flow
\* yaml.safe_load of the whole written file, as run() does it: block
\* sequences and mappings are rebuilt from the indentation of the lines.
\* Col: the column at which the key of a line stands
Col(l) == l.ind + (IF l.dash THEN 2 ELSE 0)

\* the lines that open an item ("- ") of the block sequence at indentation ind
StartsAt(lines, ind) == {i \in DOMAIN lines : lines[i].dash /\ lines[i].ind = ind}
NthStart(lines, ind, k) ==
    CHOOSE i \in StartsAt(lines, ind) :
        Cardinality({j \in StartsAt(lines, ind) : j <= i}) = k
ItemEnd(lines, ind, i) ==
    LET later == {j \in StartsAt(lines, ind) : j > i}
    IN  IF later = {} THEN Len(lines)
        ELSE (CHOOSE j \in later : \A m \in later : j <= m) - 1
\* the items of a block sequence, each as its lines
ListItems(lines, ind) ==
    [k \in 1..Cardinality(StartsAt(lines, ind)) |->
        SubSeq(lines, NthStart(lines, ind, k),
               ItemEnd(lines, ind, NthStart(lines, ind, k)))]

\* the implicit resolver: a plain scalar that reads as an integer is an int
LoadInt(v) ==
    IF Len(v) = 1 /\ \E n \in 0..MaxCards : ToString(n) = v[1]
    THEN CHOOSE n \in 0..MaxCards : ToString(n) = v[1]
    ELSE -1
LoadStr(v) == IF Len(v) = 1 THEN v[1] ELSE ""
\* "[]" and "{}" are the empty flow sequence and mapping
LoadEmpty(v) == IF v \in {<<"[]">>, <<"{}">>} THEN <<>> ELSE <<v>>

\* the last line of a mapping (keys at column col) that holds key, 0 if none
FieldAt(lines, col, key) ==
    LET at == {i \in DOMAIN lines : Col(lines[i]) = col /\ lines[i].k = key}
    IN  IF at = {} THEN 0 ELSE CHOOSE i \in at : \A j \in at : j <= i
FieldValue(lines, col, key) ==
    IF FieldAt(lines, col, key) = 0 THEN <<>> ELSE lines[FieldAt(lines, col, key)].v
\* the block nested under line i: the lines after it that are indented deeper
NestedUnder(lines, col, i) ==
    LET stop == {j \in (i + 1)..Len(lines) : Col(lines[j]) <= col}
    IN  SubSeq(lines, i + 1,
               IF stop = {} THEN Len(lines)
               ELSE (CHOOSE j \in stop : \A m \in stop : j <= m) - 1)

\* the value under 'cardComment': a nested mapping, a plain scalar, or null
LoadComment(lines, col) ==
    LET i == FieldAt(lines, col, "cardComment")
        nested == IF i = 0 THEN <<>> ELSE NestedUnder(lines, col, i)
    IN  IF i = 0 THEN Absent
        ELSE IF nested # <<>>
             THEN YMap([j \in DOMAIN nested |-> <<nested[j].k, nested[j].v>>])
        ELSE IF lines[i].v = <<"{}">> THEN YMap(<<>>)
        ELSE IF lines[i].v = <<>> THEN YNone
        ELSE YStr(lines[i].v)

\* one CardItem: its keys in document order and the value under each
LoadCard(lines) ==
    LET fields == SelectSeq(lines, LAMBDA l : Col(l) = 4)
    IN  [keys |-> [i \in DOMAIN fields |-> fields[i].k],
         cardNo |-> LoadInt(FieldValue(lines, 4, "cardNo")),
         cardHeading |-> LoadStr(FieldValue(lines, 4, "cardHeading")),
         cardText |-> LoadStr(FieldValue(lines, 4, "cardText")),
         previousmessages |-> LoadEmpty(FieldValue(lines, 4, "previousmessages")),
         cardattributes |-> LoadEmpty(FieldValue(lines, 4, "cardattributes")),
         cardComment |-> LoadComment(lines, 4)]

\* one element of the top-level list: a mapping with one key, over the list
\* of its CardItems ("[]" for none; nothing after the key loads as None)
LoadRecord(lines) ==
    [keys |-> <<lines[1].k>>,
     kind |-> IF lines[1].v = <<"[]">> \/ StartsAt(lines, 2) # {} THEN "list"
              ELSE "none",
     cards |-> [k \in DOMAIN ListItems(lines, 2) |-> LoadCard(ListItems(lines, 2)[k])]]

\* an empty file loads as None
yaml_load_doc(doc) ==
    IF doc = <<>> THEN [kind |-> "none", items |-> <<>>]
    ELSE [kind |-> "list",
          items |-> [k \in DOMAIN ListItems(doc, 0) |-> LoadRecord(ListItems(doc, 0)[k])]]

\* run(): once create_flow has returned, final_comments.yaml is read back
RunReadBack ==
    /\ chain = "create_flow" /\ phase = "done" /\ run_pc = "flow"
    /\ comments_data' = yaml_load_doc(final_comments.doc)
    /\ run_pc' = "loaded"
    /\ UNCHANGED <<chain, shared, heap, node, phase, prep_res, exec_res, ci, lastResp,
                   calls, execLog, trace, final_comments>>

\* feedback_filler reads cardcontent["cardComment"]["comment"] of a CardItem
CanFill(card) ==
    /\ card.cardComment.kind = "map"
    /\ \E i \in DOMAIN card.cardComment.items : card.cardComment.items[i][1] = "comment"

\* run(): fill_comments for every element of comments_data
RunFill ==
    /\ run_pc = "loaded"
    /\ run_pc' = IF /\ comments_data.kind = "list"
                    /\ \A e \in DOMAIN comments_data.items :
                         /\ comments_data.items[e].kind = "list"
                         /\ \A c \in DOMAIN comments_data.items[e].cards :
                                CanFill(comments_data.items[e].cards[c])
                 THEN "filled" ELSE "raised"
    /\ UNCHANGED <<chain, shared, heap, node, phase, prep_res, exec_res, ci, lastResp,
                   calls, execLog, trace, final_comments, comments_data>>

\* ------------------------------------------------------- specifications
\* runs of the chains with the stub generator
Next ==
    \/ GathererPrep
    \/ GathererExec
    \/ GathererPost
    \/ BatchExecReturn
    \/ CommentsPrep
    \/ CommentsExecOpen
    \/ CommentsExecCard(StubResponses)
    \/ CommentsPost
    \/ FinalizerPrep
    \/ FinalizerExecEmpty
    \/ FinalizerExecCard
    \/ FinalizerPost
    \/ WriterPrep
    \/ WriterExec
    \/ WriterPost
    \/ RunReadBack
    \/ RunFill

Spec == Init /\ [][Next]_vars

\* OutputFileWriter.exec run again on the records of a finished run
WriterAgain ==
    /\ phase = "done" /\ final_comments.written
    /\ Len(execLog) < MaxReruns
    /\ final_comments' = WriteFile(final_comments, yaml_dump(Deref(shared.FinalComments.v)))
    /\ execLog' = Append(execLog, shared.FinalComments.v)
    /\ UNCHANGED <<chain, shared, heap, node, phase, prep_res, exec_res, ci, lastResp,
                   calls, trace, comments_data, run_pc>>

NextRerun == Next \/ WriterAgain

SpecRerun == Init /\ [][NextRerun]_vars

\* CommentsGenerator run on its own over the context DataGatherer leaves for
\* files = ["Goals"] with one CardItem, the generator returning any completion
InitGen ==
    /\ chain = "comments"
    /\ heap = <<Record("Goals", 1)>>
    /\ shared = [EmptyShared EXCEPT !.files = ListOf(<<"Goals">>),
                                    !.speed_files = ListOf(<<1>>),
                                    !.user_files = ListOf(<<>>)]
    /\ node = "comments"
    /\ phase = "prep"
    /\ prep_res = <<>>
    /\ exec_res = <<>>
    /\ ci = 0
    /\ lastResp = <<>>
    /\ calls = <<>>
    /\ execLog = <<>>
    /\ trace = <<>>
    /\ final_comments = NoFile
    /\ comments_data = NotRead
    /\ run_pc = "flow"

NextGen ==
    \/ CommentsPrep
    \/ CommentsExecOpen
    \/ CommentsExecCard(AllResponses)
    \/ BatchExecReturn
    \/ CommentsPost

SpecGen == InitGen /\ [][NextGen]_vars

\* ------------------------------------------------------ shared notions
\* node n has completed its post
Posted(n) == \E i \in DOMAIN trace : trace[i] = <<n, "post">>

\* the names DataGatherer.prep returns for this run
GivenNames == IF shared.files = NoKey THEN DefaultFiles ELSE shared.files.v

\* the first top-level key of a loaded object, "" when it has none
FirstKey(obj) == IF obj.kind = "dict" /\ obj.keys # <<>> THEN obj.keys[1] ELSE ""

IsSpeedRef(r) == FirstKey(heap[r]) \in {"Goal(s)", "Attribute(s)"}

\* no step leaves a state in which an exception has propagated
RaisedIsFinal == [][phase # "raised"]_vars

\* ------------------------------------------------------------------ C1
\* C1: after DataGatherer.post, shared["speed_files"] holds exactly the
\* loaded records whose first key is Goal(s) or Attribute(s), in the order
\* their names were given (default list or "files" override), and a record
\* keyed FeedForward is never an element of it.
C1_SpeedFilesPartition ==
    /\ \A r \in DOMAIN heap : heap[r].name = GivenNames[r]
    /\ Posted("gatherer") =>
          shared.speed_files = ListOf(SelectSeq([r \in DOMAIN heap |-> r], IsSpeedRef))
    /\ \A i \in DOMAIN shared.speed_files.v :
          FirstKey(heap[shared.speed_files.v[i]]) # "FeedForward"

\* an override naming feed_forward before a record file has been filed
C1_Witness ==
    /\ Posted("gatherer")
    /\ shared.files.t = "list"
    /\ Len(heap) = 2
    /\ FirstKey(heap[1]) = "FeedForward"
    /\ shared.speed_files = ListOf(<<2>>)

\* ------------------------------------------------------------------ C2
\* C2: every CardItem CommentsGenerator.exec has processed carries a
\* 'cardComment' that is a mapping with the key 'comment'; and when a
\* completion makes the stage raise, nothing of that record is stored:
\* 'FinalComments' is not written and no CardItem of the record reachable
\* from the shared dict carries a 'cardComment'.
C2_CommentIsMapping ==
    \A r \in DOMAIN heap : \A c \in DOMAIN heap[r].cards :
        LET cc == heap[r].cards[c].cardComment
        IN  cc # Absent => cc.kind = "map" /\ CommentIn(cc)

C2_NothingStoredOnRaise ==
    (node = "comments" /\ phase = "raised" /\ ci >= 1) =>
        /\ shared.FinalComments = NoKey
        /\ \A i \in DOMAIN shared.speed_files.v :
              shared.speed_files.v[i] = prep_res[NextElement] =>
                 \A c \in DOMAIN heap[prep_res[NextElement]].cards :
                     heap[prep_res[NextElement]].cards[c].cardComment = Absent

C2_CommentMappingOrNothing == C2_CommentIsMapping /\ C2_NothingStoredOnRaise

\* ------------------------------------------------------------------ C3
\* C3: in a run of create_flow, a completion without a yaml fence makes
\* CommentsGenerator raise at that CardItem, the run halts there, and
\* OutputFileWriter never executes (final_comments is not written).
C3_NoFenceHalts ==
    /\ [][(node = "comments" /\ Len(calls') > Len(calls) /\ ~HasYamlFence(lastResp'))
            => phase' = "raised"]_vars
    /\ [](phase = "raised" =>
            /\ ~final_comments.written
            /\ \A i \in DOMAIN trace : trace[i][1] # "writer")
    /\ RaisedIsFinal

\* a later CardItem got the fence-less completion after an earlier one succeeded
C3_Witness ==
    /\ chain = "create_flow"
    /\ node = "comments" /\ phase = "raised"
    /\ Len(calls) >= 2
    /\ ~HasYamlFence(lastResp)
    /\ ~final_comments.written

\* ------------------------------------------------------------------ C4
\* C4: a failure-free run of create_flow starts at DataGatherer, runs
\* prep/exec/post of DataGatherer, CommentsGenerator, OutputFileWriter in
\* this order on the same shared dict, each once, and ends after
\* OutputFileWriter, although CommentsGenerator.post returns None.
FullCycle(n) == << <<n, "prep">>, <<n, "exec">>, <<n, "post">> >>
CreateFlowTrace == FullCycle("gatherer") \o FullCycle("comments") \o FullCycle("writer")

C4_RunOrder ==
    chain = "create_flow" =>
        /\ Len(trace) <= Len(CreateFlowTrace)
        /\ trace = SubSeq(CreateFlowTrace, 1, Len(trace))
        /\ phase = "done" => trace = CreateFlowTrace /\ node = "none"
        /\ (phase \notin {"done", "raised"} /\ trace # CreateFlowTrace) => node # "none"
        /\ trace = CreateFlowTrace => phase = "done"

C4_Witness ==
    /\ chain = "create_flow" /\ phase = "done"
    /\ trace = CreateFlowTrace
    /\ final_comments.written
    /\ Len(calls) >= 2

\* ------------------------------------------------------------------ C5
\* C5: in every batch stage exec runs once per element of what prep
\* returned, in order, and post gets a result list of the same length whose
\* i-th result comes from the i-th element; an empty input gives an empty
\* result and no exec call.
C5_BatchPositional ==
    (node \in {"gatherer", "comments", "finalizer"} /\ phase = "post") =>
        /\ Len(exec_res) = Len(prep_res)
        /\ execLog = prep_res
        /\ \A i \in DOMAIN prep_res :
              CASE node = "gatherer" -> heap[exec_res[i]].name = prep_res[i]
                [] node = "comments" -> exec_res[i] = prep_res[i]
                [] OTHER -> exec_res[i] = 0
        /\ prep_res = <<>> => exec_res = <<>> /\ execLog = <<>>

C5_Witness ==
    /\ node = "comments" /\ phase = "post"
    /\ Len(prep_res) = 2
    /\ exec_res = prep_res
    /\ Len(calls) >= 2

\* ------------------------------------------------------------------ C6
\* C6: when loading one of the requested names fails in DataGatherer.exec,
\* the run aborts without partial recovery: post is not run, none of
\* speed_files / user_files / misc_files is written, no later stage runs and
\* the generator is never called, however many names loaded before.
\* (exec was invoked on more elements than it returned results for: the
\* last invocation raised.)
LoadFailed == node = "gatherer" /\ Len(execLog) > Len(exec_res)

C6_LoadFailureAborts ==
    /\ [](LoadFailed =>
            /\ phase = "raised"
            /\ shared.speed_files = NoKey
            /\ shared.user_files = NoKey
            /\ shared.misc_files = NoKey
            /\ shared.FinalComments = NoKey
            /\ trace = << <<"gatherer", "prep">> >>
            /\ calls = <<>>
            /\ ~final_comments.written)
    /\ RaisedIsFinal

\* the third name failed after two records had been loaded
C6_Witness ==
    /\ LoadFailed
    /\ phase = "raised"
    /\ Len(heap) = 2
    /\ \A r \in DOMAIN heap : IsSpeedRef(r)

\* ------------------------------------------------------------------ C7
\* C7: the shared dict is changed only in post: for every stage, what is
\* reachable from the shared dict (the records and CardItems under
\* 'speed_files' included) is the same before and after each step of the
\* exec phase; in particular CommentsGenerator.exec changes nothing
\* reachable from it before CommentsGenerator.post runs.
C7_ExecLeavesContext == [][phase = "exec" => Reachable' = Reachable]_vars

\* ------------------------------------------------------------------ C8
\* C8: DataGatherer.post files every loaded record under exactly one entry
\* chosen by its first key (speed_files, user_files, or misc_files for any
\* other key), and every loaded record with another key is still in the
\* shared dict afterwards, however many of them there are.
FiledUnder(entry, r) == \E i \in DOMAIN entry.v : entry.v[i] = r

C8_EveryRecordFiled ==
    Posted("gatherer") =>
        \A r \in DOMAIN heap :
            LET key == FirstKey(heap[r])
            IN  /\ FiledUnder(shared.speed_files, r) <=> key \in {"Goal(s)", "Attribute(s)"}
                /\ FiledUnder(shared.user_files, r) <=> key = "FeedForward"
                /\ FiledUnder(shared.misc_files, r) <=>
                      key \notin {"Goal(s)", "Attribute(s)", "FeedForward"}

\* ------------------------------------------------------------------ C9
\* C9: CommentFinalizer is advisory only: whatever the generator answers,
\* running it leaves shared['FinalComments'] and every 'cardComment' as
\* CommentsGenerator.post left them, so OutputFileWriter writes the records
\* it writes in the chain without CommentFinalizer: the dump of the records
\* as they were when CommentsGenerator.post returned.
C9_FinalizerAdvisory ==
    /\ [][Posted("comments") => shared' = shared /\ heap' = heap]_vars
    /\ [](final_comments.written =>
            /\ shared.FinalComments.t = "list"
            /\ final_comments.doc = yaml_dump(Deref(shared.FinalComments.v)))

\* the chain with CommentFinalizer has written the file after review calls
C9_Witness ==
    /\ chain = "main" /\ phase = "done"
    /\ final_comments.written
    /\ \E i \in DOMAIN calls : calls[i][1] = "finalizer"
    /\ \E r \in DOMAIN heap : \E c \in DOMAIN heap[r].cards :
          heap[r].cards[c].cardComment.kind = "map"

\* ----------------------------------------------------------------- C10
\* the fenced block that starts after line i of a completion and ends before
\* line j: lines i+1..j-1 hold no fence, line i is an opening yaml fence and
\* line j a fence or the end of the completion
IsBlock(resp, i, j) ==
    /\ i \in DOMAIN resp /\ j \in (i + 1)..(Len(resp) + 1)
    /\ resp[i].k = "FENCE:yaml"
    /\ \A m \in (i + 1)..(j - 1) : resp[m].k \notin {"FENCE", "FENCE:yaml"}
    /\ j <= Len(resp) => resp[j].k \in {"FENCE", "FENCE:yaml"}

\* the block holds "key: value" lines only, with the fields comment and reason
HoldsCommentReason(block) ==
    /\ \A m \in DOMAIN block : block[m].k # ""
    /\ \E m \in DOMAIN block : block[m].k = "comment"
    /\ \E m \in DOMAIN block : block[m].k = "reason"

\* the CardItem of the scenario record has been through the for loop body
Generated == chain = "comments" /\ calls # <<>>
TheComment == heap[1].cards[1].cardComment

\* C10 (as stated): when the completion contains a yaml fenced block holding
\* comment and reason, the CardItem gets a 'cardComment' equal to exactly the
\* mapping parsed from that fenced block, whatever is outside the fence.
C10_ExactlyTheBlock ==
    Generated =>
        \A i \in DOMAIN lastResp : \A j \in 1..(Len(lastResp) + 1) :
            (IsBlock(lastResp, i, j) /\ HoldsCommentReason(SubSeq(lastResp, i + 1, j - 1)))
                => /\ phase # "raised"
                   /\ TheComment = YMap(MapOf(SubSeq(lastResp, i + 1, j - 1)))

\* C10 (amended): when the FIRST yaml fenced block of the completion holds
\* comment and reason, the CardItem gets a 'cardComment' equal to the mapping
\* parsed from that block after every U+2019 of the completion has been
\* replaced by an apostrophe; what is outside that block is ignored.
C10_FirstBlockNormalized ==
    Generated =>
        \A i \in DOMAIN lastResp : \A j \in 1..(Len(lastResp) + 1) :
            ( /\ IsBlock(lastResp, i, j)
              /\ \A m \in 1..(i - 1) : lastResp[m].k # "FENCE:yaml"
              /\ HoldsCommentReason(SubSeq(lastResp, i + 1, j - 1)) )
                => /\ phase # "raised"
                   /\ TheComment =
                        YMap(MapOf(ReplaceApostrophe(SubSeq(lastResp, i + 1, j - 1))))

\* the scenario block, with text before the fence and no closing fence
C10_Witness ==
    /\ Generated /\ phase = "done"
    /\ lastResp = <<LPlain, FenceYaml, LComment, LReason>>
    /\ TheComment = YMap(<< <<"comment", <<"Shipped X on time">>>>,
                            <<"reason", <<"met deadline">>>> >>)
    /\ shared.FinalComments = ListOf(<<1>>)

\* ---------------------------------------------------------------- C11
\* the keys of all CardItems of the written records, in the records' order
RECURSIVE CardKeysOf(_)
CardKeysOf(cards) ==
    IF cards = <<>> THEN <<>> ELSE CardKeys(cards[1]) \o CardKeysOf(Tail(cards))
RECURSIVE RecordKeysOf(_)
RecordKeysOf(records) ==
    IF records = <<>> THEN <<>>
    ELSE CardKeysOf(records[1].cards) \o RecordKeysOf(Tail(records))
\* the CardItem keys of the file, in the order of its lines
DocCardKeys ==
    LET fields == SelectSeq(final_comments.doc, LAMBDA l : Col(l) = 4)
    IN  [i \in DOMAIN fields |-> fields[i].k]

\* C11: running OutputFileWriter.exec again on the same annotated records
\* leaves final_comments exactly as the first run left it, and the file lists
\* the fields of every CardItem in the records' own key order, unsorted.
C11_RewriteIdempotent ==
    /\ [][(phase = "done" /\ execLog' # execLog) => final_comments' = final_comments]_vars
    /\ [](final_comments.written =>
            DocCardKeys = RecordKeysOf(Deref(shared.FinalComments.v)))

\* the writer has run three times over records that carry a comment mapping
C11_Witness ==
    /\ phase = "done" /\ Len(execLog) = 2
    /\ \E i \in DOMAIN final_comments.doc :
          final_comments.doc[i].ind = 6 /\ final_comments.doc[i].k = "comment"

\* ---------------------------------------------------------------- C12
\* the records in memory as a comparison with == sees them: the top-level
\* key, the CardItems in order, and each CardItem's keys and values
ValueOfCard(card) ==
    [keys |-> CardKeys(card), cardNo |-> card.cardNo, cardHeading |-> card.cardHeading,
     cardText |-> card.cardText, previousmessages |-> card.previousmessages,
     cardattributes |-> card.cardattributes, cardComment |-> card.cardComment]
ValueOfRecords(records) ==
    [kind |-> "list",
     items |-> [i \in DOMAIN records |->
                  [keys |-> records[i].keys, kind |-> "list",
                   cards |-> [c \in DOMAIN records[i].cards |->
                                ValueOfCard(records[i].cards[c])]]]]

\* C12: loading the file OutputFileWriter.exec wrote, with yaml.safe_load of
\* the whole file, yields a value equal to the records written: the same
\* top-level keys, the same CardItems in the same order, the same fields and
\* values in each, 'cardComment' included; and this is what run() reads back.
C12_RoundTrip ==
    /\ final_comments.written =>
          yaml_load_doc(final_comments.doc) = ValueOfRecords(Deref(shared.FinalComments.v))
    /\ run_pc # "flow" =>
          comments_data = ValueOfRecords(Deref(shared.FinalComments.v))

\* run() has read back a file with a record of two CardItems, one comment a
\* mapping and one a str, and a record without CardItems
C12_Witness ==
    /\ run_pc = "loaded"
    /\ \E e \in DOMAIN comments_data.items :
          /\ Len(comments_data.items[e].cards) = 2
          /\ comments_data.items[e].cards[1].cardComment.kind = "map"
          /\ comments_data.items[e].cards[2].cardComment.kind = "str"
    /\ \E e \in DOMAIN comments_data.items : comments_data.items[e].cards = <<>>

\* ---------------------------------------------------------------- C13
\* the call_llm invocations of stage n, each as <<record, CardItem>>
StageCalls(n) ==
    LET of == SelectSeq(calls, LAMBDA c : c[1] = n)
    IN  [i \in DOMAIN of |-> <<of[i][2], of[i][3]>>]
\* every CardItem of the records refs, in record order then card order
RECURSIVE CardItemsOf(_)
CardItemsOf(refs) ==
    IF refs = <<>> THEN <<>>
    ELSE [c \in DOMAIN heap[refs[1]].cards |-> <<refs[1], c>>] \o CardItemsOf(Tail(refs))
IsPrefix(s, t) == Len(s) <= Len(t) /\ s = SubSeq(t, 1, Len(s))

C14_WrittenCommentsFillable ==
    /\ final_comments.written =>
          \A e \in DOMAIN yaml_load_doc(final_comments.doc).items :
             \A c \in DOMAIN yaml_load_doc(final_comments.doc).items[e].cards :
                 CanFill(yaml_load_doc(final_comments.doc).items[e].cards[c])
    /\ run_pc # "raised"

\* ---------------------------------------------------------------- C15
\* a record with the 'cardComment' of every CardItem taken away
WithoutComments(rec) ==
    [rec EXCEPT !.cards = [c \in DOMAIN rec.cards |->
                             [rec.cards[c] EXCEPT !.cardComment = Absent]]]

\* C15: once CommentsGenerator has finished, FinalComments holds the records
\* of speed_files in the same order, and each of them is the record as it was
\* loaded - the same top-level key, the same CardItems in the same order, the
\* same cardNo, cardHeading, cardText, previousmessages and cardattributes -
\* but for 'cardComment'.
C15_StructurePreserved ==
    Posted("comments") =>
        /\ shared.FinalComments.v = shared.speed_files.v
        /\ \A i \in DOMAIN shared.FinalComments.v :
              LET rec == heap[shared.FinalComments.v[i]]
              IN  WithoutComments(rec) = Record(rec.name, Len(rec.cards))

\* CommentsGenerator has finished over two records, one of them with two
\* CardItems that both carry a comment
C15_Witness ==
    /\ Posted("comments")
    /\ Len(shared.FinalComments.v) = 2
    /\ \E i \in DOMAIN shared.FinalComments.v :
          LET rec == heap[shared.FinalComments.v[i]]
          IN  /\ Len(rec.cards) = 2
              /\ \A c \in DOMAIN rec.cards : rec.cards[c].cardComment # Absent

====
